---- MODULE Spec2Model ----
(***************************************************************************)
(* Model of src/main.py: generate_report (the structure negotiation loop   *)
(* and the section negotiation loop) and the part of main that saves the   *)
(* report.  Python strings are modelled as sequences of tokens (a token is *)
(* a literal piece of an f-string or an interpolated value), so that       *)
(* concatenation, embedding and prefixes keep their meaning.  The two      *)
(* agents and the console are external: their answers are chosen           *)
(* nondeterministically from small sets.                                   *)
(***************************************************************************)
EXTENDS Integers, Sequences, FiniteSets, TLC

VARIABLES
    source_docs,      \* generate_report parameter (main.py:86)
    topic,            \* generate_report parameter (main.py:86)
    deps,             \* Deps built at main.py:87-91
    message_history,  \* main.py:93
    final_structure,  \* main.py:94
    result,           \* result of the last delegation_agent.run
    answer,           \* last Prompt.ask answer
    feedback,         \* last input() text
    complete_report,  \* main.py:138
    idx,              \* position of the for loop of main.py:139 (1-based)
    section_content,  \* result of the last writer_agent.run
    report,           \* value returned by generate_report (main.py:209)
    file,             \* content of the file written by main (main.py:214-215)
    pc,               \* the statement the run is at
    pending,          \* the awaited agent runs and console prompts
    trace             \* history variable: the external interactions so far

vars == <<source_docs, topic, deps, message_history, final_structure, result,
          answer, feedback, complete_report, idx, section_content, report,
          file, pc, pending, trace>>

(***************************************************************************)
(* Bounds and input domains                                                *)
(***************************************************************************)
MaxCalls == 5

\* the arguments main may call generate_report with: a topic and the list
\* of loaded source documents
Inputs == {[topic |-> "X", source_docs |-> <<"d1">>],
           [topic |-> "Y", source_docs |-> <<"d1", "d2">>]}

Feedbacks == {"f1", "f2"}

Contents == {"c1", "c2"}

None == [none |-> TRUE]

NoText == "None"

(***************************************************************************)
(* Data model (main.py:14-40)                                              *)
(***************************************************************************)
SubSection(title) == [title |-> title, content |-> NoText]

ReportSection(title, subsections) ==
    [title |-> title, content |-> NoText, subsections |-> subsections]

ReportStructure(title, sections) ==
    [title |-> title, sections |-> sections, abstract |-> NoText]

ReportContent(structure, content) ==
    [structure |-> structure, content |-> content]

Deps(docs, tp, ctx) ==
    [source_documents |-> docs, topic |-> tp, additional_context |-> ctx]

\* The structures the delegation agent may answer with.
StructureCandidates ==
    { ReportStructure("R0", <<>>),
      ReportStructure("R1", <<ReportSection("A", <<SubSection("A1")>>)>>),
      ReportStructure("R2", <<ReportSection("B", <<>>),
                              ReportSection("A", <<SubSection("A1"),
                                                   SubSection("A2")>>)>>) }

(***************************************************************************)
(* Strings                                                                 *)
(***************************************************************************)
RECURSIVE Join(_, _)
\* sep.join(parts), each part a token sequence
Join(parts, sep) ==
    IF parts = <<>> THEN <<>>
    ELSE IF Len(parts) = 1 THEN parts[1]
    ELSE parts[1] \o sep \o Join(Tail(parts), sep)

\* str() of a list of strings / documents, as interpolated at main.py:142
StrList(docs) ==
    <<"[">> \o Join([i \in 1..Len(docs) |-> <<docs[i]>>], <<", ">>) \o <<"]">>

StrSubSection(s) == <<"SubSection(title=", s.title, ", content=", s.content, ")">>

StrSection(s) ==
    <<"ReportSection(title=", s.title, ", content=", s.content, ", subsections=[">>
    \o Join([i \in 1..Len(s.subsections) |-> StrSubSection(s.subsections[i])], <<", ">>)
    \o <<"])">>

\* str() of a ReportStructure, as interpolated at main.py:119
StrStructure(s) ==
    <<"title=", s.title, " sections=[">>
    \o Join([i \in 1..Len(s.sections) |-> StrSection(s.sections[i])], <<", ">>)
    \o <<"] abstract=", s.abstract>>

\* part occurs in text as a contiguous run of tokens
Embeds(text, part) ==
    \E i \in 0..(Len(text) - Len(part)) :
        \A j \in 1..Len(part) : text[i + j] = part[j]

(***************************************************************************)
(* Prompts (the f-strings of generate_report)                              *)
(***************************************************************************)
StructurePrompt(tp) == <<"Create a report structure for topic: ", tp>>

StructureRevisionPrompt(fb, data) ==
    <<"Revise the report structure based on feedback: ", fb,
      ", this is currently the structure: ">> \o StrStructure(data)

DraftPrompt(title, tp, docs) ==
    <<"Write the ", title, " section for the report on ", tp,
      " make sure you use the sources ">> \o StrList(docs)
    \o <<" and only use the sources you have been given and cite them in harvard style">>

SectionRevisionPrompt(title, fb) ==
    <<"Revise the ", title, " section based on feedback: ", fb>>

SectionBlock(title, data) == <<"\n\n# ", title, "\n\n", data>>

(***************************************************************************)
(* The agents (pydantic_ai Agent.run) as seen by generate_report           *)
(***************************************************************************)
NoHistory == <<>>

\* the calls made so far
Calls == SelectSeq(trace, LAMBDA e : e.ev = "call")

NumCalls == Len(Calls)

\* result.all_messages(): the history passed in followed by the new exchange;
\* id tells the exchanges of different runs apart (messages are timestamped)
AllMessages(history, id, prompt, response) ==
    history \o <<[call |-> id, request |-> prompt, response |-> response]>>

\* the result object of delegation_agent.run answering with structure data
DelegationResult(history, id, prompt, data) ==
    [data |-> data,
     all_messages |-> AllMessages(history, id, prompt, StrStructure(data))]

\* the result object of writer_agent.run answering with text data
WriterResult(history, id, prompt, data) ==
    [data |-> data,
     all_messages |-> AllMessages(history, id, prompt, <<data>>)]

CallEvent(agent, kind, thread, prompt, d, history, res) ==
    [ev |-> "call", agent |-> agent, kind |-> kind, thread |-> thread,
     prompt |-> prompt, deps |-> d, message_history |-> history,
     data |-> res.data, all_messages |-> res.all_messages]

AskEvent(thread, a) == [ev |-> "ask", thread |-> thread, answer |-> a]

InputEvent(thread, fb) == [ev |-> "input", thread |-> thread, feedback |-> fb]

(***************************************************************************)
(* Reading the trace                                                       *)
(***************************************************************************)
Max(S) == CHOOSE x \in S : \A y \in S : y <= x

Min(S) == CHOOSE x \in S : \A y \in S : x <= y

\* positions of the calls of thread t (0: the structure, i: section i)
ThreadCalls(t) ==
    {k \in 1..Len(trace) : trace[k].ev = "call" /\ trace[k].thread = t}

\* positions of the decisions of thread t with answer a
ThreadAsks(t, a) ==
    {k \in 1..Len(trace) :
        trace[k].ev = "ask" /\ trace[k].thread = t /\ trace[k].answer = a}

\* positions of the calls of the thread of call k made before call k
EarlierCalls(k) == {j \in ThreadCalls(trace[k].thread) : j < k}

\* positions of the revision calls, of either loop
RevisionCalls ==
    {k \in 1..Len(trace) :
        trace[k].ev = "call" /\ trace[k].kind \in {"revision", "section_revision"}}

(***************************************************************************)
(* The arguments generate_report passes at each call site                  *)
(***************************************************************************)
\* main.py:99
StructureRequestPrompt == StructurePrompt(topic)

\* variant: the request carries the history of the last structure run
StructureRequestHistory_Threaded ==
    IF result = None THEN message_history ELSE result.all_messages

\* main.py:101
StructureRequestHistory == message_history

\* main.py:119
StructureRevisionArgPrompt == StructureRevisionPrompt(feedback, result.data)

\* main.py:121
StructureRevisionHistory == result.all_messages

\* variant: the first proposal is kept
AcceptedStructure_First == trace[1].data

\* main.py:114 and main.py:133
AcceptedStructure == result.data

\* main.py:139: the section the for loop is at
Section == final_structure.sections[idx]

\* variant: the document so far is appended to the drafting prompt
SectionDraftPrompt_WithReport ==
    DraftPrompt(Section.title, topic, source_docs) \o complete_report

\* variant: the report title is used in place of the topic
SectionDraftPrompt_ReportTitle ==
    DraftPrompt(Section.title, final_structure.title, source_docs)

\* main.py:142
SectionDraftPrompt == DraftPrompt(Section.title, topic, source_docs)

\* variant: the draft is sent with the history of the last run
SectionDraftHistory_Carried ==
    IF section_content = None THEN result.all_messages
    ELSE section_content.all_messages

\* main.py:141-144: no message_history argument
SectionDraftHistory == NoHistory

\* main.py:163
SectionRevisionArgPrompt == SectionRevisionPrompt(Section.title, feedback)

\* variant: the section revision is sent without history
SectionRevisionHistory_Reset == NoHistory

\* main.py:165
SectionRevisionHistory == section_content.all_messages

\* variant: the first draft of the section is appended instead of the last
AppendSection_FirstDraft ==
    complete_report
    \o SectionBlock(Section.title, trace[Min(ThreadCalls(idx))].data)

\* variant: the block is put in front of the document
AppendSection_Prepend ==
    SectionBlock(Section.title, section_content.data) \o complete_report

\* variant: the document is assigned the block instead of extended by it
AppendSection_Overwrite == SectionBlock(Section.title, section_content.data)

\* main.py:158
AppendSection == complete_report \o SectionBlock(Section.title, section_content.data)

\* main.py:100, 120, 143, 164
CallDeps == deps

(***************************************************************************)
(* Suspension points: the run waits at an awaited agent run or at a        *)
(* blocking console prompt                                                 *)
(***************************************************************************)
\* await delegation_agent.run / writer_agent.run (main.py:98, 118, 141, 162)
CallSites == {"structure_request", "structure_revision",
              "section_draft", "section_revision"}

\* Prompt.ask (main.py:107, 126, 151)
AskSites == {"structure_ask", "structure_ask2", "section_ask"}

\* input (main.py:117, 161)
InputSites == {"structure_input", "section_input"}

\* variant: the drafts of all the sections are started together
Suspended_Gather(p) ==
    IF p = "section_draft"
    THEN {[kind |-> "run", site |-> p, section |-> i] :
             i \in 1..Len(final_structure.sections)}
    ELSE IF p \in CallSites THEN {[kind |-> "run", site |-> p]}
    ELSE IF p \in AskSites THEN {[kind |-> "ask", site |-> p]}
    ELSE IF p \in InputSites THEN {[kind |-> "input", site |-> p]}
    ELSE {}

\* what the run waits for once control has reached statement p: each agent
\* run is awaited and each console prompt blocks, one at a time
Suspended(p) ==
    IF p \in CallSites THEN {[kind |-> "run", site |-> p]}
    ELSE IF p \in AskSites THEN {[kind |-> "ask", site |-> p]}
    ELSE IF p \in InputSites THEN {[kind |-> "input", site |-> p]}
    ELSE {}

(***************************************************************************)
(* Initial state: generate_report entered, main.py:87-94 executed          *)
(***************************************************************************)
Init ==
    /\ \E in \in Inputs :
          /\ topic = in.topic
          /\ source_docs = in.source_docs
    /\ deps = Deps(source_docs, topic, NoText)
    /\ message_history = NoHistory
    /\ final_structure = None
    /\ result = None
    /\ answer = NoText
    /\ feedback = NoText
    /\ complete_report = <<>>
    /\ idx = 0
    /\ section_content = None
    /\ report = None
    /\ file = None
    /\ pc = "structure_request"
    /\ pending = Suspended(pc)
    /\ trace = <<>>

(***************************************************************************)
(* Structure refinement loop (main.py:97-134)                              *)
(***************************************************************************)
\* main.py:98-105
StructureRequest ==
    /\ pc = "structure_request"
    /\ NumCalls < MaxCalls
    /\ \E data \in StructureCandidates :
         LET res == DelegationResult(StructureRequestHistory, Len(trace) + 1,
                                     StructureRequestPrompt, data)
         IN /\ result' = res
            /\ trace' = Append(trace,
                   CallEvent("delegation", "request", 0, StructureRequestPrompt,
                             CallDeps, StructureRequestHistory, res))
    /\ pc' = "structure_ask"
    /\ UNCHANGED <<source_docs, topic, deps, message_history, final_structure,
                   answer, feedback, complete_report, idx, section_content,
                   report, file>>
    /\ pending' = Suspended(pc')

\* main.py:107-117 up to the input() call
StructureAsk ==
    /\ pc = "structure_ask"
    /\ \E a \in {"accept", "modify"} :
         /\ answer' = a
         /\ trace' = Append(trace, AskEvent(0, a))
         /\ IF a = "accept"
            THEN /\ final_structure' = AcceptedStructure
                 /\ complete_report' = <<>>
                 /\ idx' = 1
                 /\ pc' = "for_section"
            ELSE /\ pc' = "structure_input"
                 /\ UNCHANGED <<final_structure, complete_report, idx>>
    /\ UNCHANGED <<source_docs, topic, deps, message_history, result, feedback,
                   section_content, report, file>>
    /\ pending' = Suspended(pc')

\* main.py:117
StructureInput ==
    /\ pc = "structure_input"
    /\ \E fb \in Feedbacks :
         /\ feedback' = fb
         /\ trace' = Append(trace, InputEvent(0, fb))
    /\ pc' = "structure_revision"
    /\ UNCHANGED <<source_docs, topic, deps, message_history, final_structure,
                   result, answer, complete_report, idx, section_content,
                   report, file>>
    /\ pending' = Suspended(pc')

\* main.py:118-125
StructureRevision ==
    /\ pc = "structure_revision"
    /\ NumCalls < MaxCalls
    /\ \E data \in StructureCandidates :
         LET res == DelegationResult(StructureRevisionHistory, Len(trace) + 1,
                                     StructureRevisionArgPrompt, data)
         IN /\ result' = res
            /\ trace' = Append(trace,
                   CallEvent("delegation", "revision", 0, StructureRevisionArgPrompt,
                             CallDeps, StructureRevisionHistory, res))
    /\ pc' = "structure_ask2"
    /\ UNCHANGED <<source_docs, topic, deps, message_history, final_structure,
                   answer, feedback, complete_report, idx, section_content,
                   report, file>>
    /\ pending' = Suspended(pc')

\* variant: "modify" on the revised structure asks for feedback again
StructureAsk2_AsksFeedback ==
    /\ pc = "structure_ask2"
    /\ \E a \in {"accept", "modify"} :
         /\ answer' = a
         /\ trace' = Append(trace, AskEvent(0, a))
         /\ IF a = "accept"
            THEN /\ final_structure' = AcceptedStructure
                 /\ complete_report' = <<>>
                 /\ idx' = 1
                 /\ pc' = "for_section"
            ELSE /\ pc' = "structure_input"
                 /\ UNCHANGED <<final_structure, complete_report, idx>>
    /\ UNCHANGED <<source_docs, topic, deps, message_history, result, feedback,
                   section_content, report, file>>
    /\ pending' = Suspended(pc')

\* variant: a second "modify" ends the loop with the revised structure
StructureAsk2_StopsOnModify ==
    /\ pc = "structure_ask2"
    /\ \E a \in {"accept", "modify"} :
         /\ answer' = a
         /\ trace' = Append(trace, AskEvent(0, a))
         /\ final_structure' = AcceptedStructure
         /\ complete_report' = <<>>
         /\ idx' = 1
         /\ pc' = "for_section"
    /\ UNCHANGED <<source_docs, topic, deps, message_history, result, feedback,
                   section_content, report, file>>
    /\ pending' = Suspended(pc')

\* main.py:126-134; on "modify" control falls to the loop head, main.py:97
StructureAsk2 ==
    /\ pc = "structure_ask2"
    /\ \E a \in {"accept", "modify"} :
         /\ answer' = a
         /\ trace' = Append(trace, AskEvent(0, a))
         /\ IF a = "accept"
            THEN /\ final_structure' = AcceptedStructure
                 /\ complete_report' = <<>>
                 /\ idx' = 1
                 /\ pc' = "for_section"
            ELSE /\ pc' = "structure_request"
                 /\ UNCHANGED <<final_structure, complete_report, idx>>
    /\ UNCHANGED <<source_docs, topic, deps, message_history, result, feedback,
                   section_content, report, file>>
    /\ pending' = Suspended(pc')

(***************************************************************************)
(* Section loop (main.py:138-168)                                          *)
(***************************************************************************)
\* variant: a structure without sections is refused with an error
ForSection_RejectsEmpty ==
    /\ pc = "for_section"
    /\ pc' = IF final_structure.sections = <<>> THEN "aborted"
             ELSE IF idx <= Len(final_structure.sections)
             THEN "section_draft" ELSE "return"
    /\ UNCHANGED <<source_docs, topic, deps, message_history, final_structure,
                   result, answer, feedback, complete_report, idx,
                   section_content, report, file, trace>>
    /\ pending' = Suspended(pc')

\* main.py:139-140: the for statement takes the next section or ends
ForSection ==
    /\ pc = "for_section"
    /\ pc' = IF idx <= Len(final_structure.sections)
             THEN "section_draft" ELSE "return"
    /\ UNCHANGED <<source_docs, topic, deps, message_history, final_structure,
                   result, answer, feedback, complete_report, idx,
                   section_content, report, file, trace>>
    /\ pending' = Suspended(pc')

\* main.py:141-148
SectionDraft ==
    /\ pc = "section_draft"
    /\ NumCalls < MaxCalls
    /\ \E data \in Contents :
         LET res == WriterResult(SectionDraftHistory, Len(trace) + 1,
                                 SectionDraftPrompt, data)
         IN /\ section_content' = res
            /\ trace' = Append(trace,
                   CallEvent("writer", "draft", idx, SectionDraftPrompt,
                             CallDeps, SectionDraftHistory, res))
    /\ pc' = "section_ask"
    /\ UNCHANGED <<source_docs, topic, deps, message_history, final_structure,
                   result, answer, feedback, complete_report, idx, report, file>>
    /\ pending' = Suspended(pc')

\* variant: one revision round only; a second "revise" keeps the revised text
SectionAsk_Capped ==
    /\ pc = "section_ask"
    /\ \E a \in {"accept", "revise"} :
         /\ answer' = a
         /\ trace' = Append(trace, AskEvent(idx, a))
         /\ IF a = "accept" \/ Cardinality(ThreadCalls(idx)) >= 2
            THEN /\ complete_report' = AppendSection
                 /\ idx' = idx + 1
                 /\ pc' = "for_section"
            ELSE /\ pc' = "section_input"
                 /\ UNCHANGED <<complete_report, idx>>
    /\ UNCHANGED <<source_docs, topic, deps, message_history, final_structure,
                   result, feedback, section_content, report, file>>
    /\ pending' = Suspended(pc')

\* variant: the accepted text is also stored in the section of the structure
SectionAsk_StoresContent ==
    /\ pc = "section_ask"
    /\ \E a \in {"accept", "revise"} :
         /\ answer' = a
         /\ trace' = Append(trace, AskEvent(idx, a))
         /\ IF a = "accept"
            THEN /\ complete_report' = AppendSection
                 /\ final_structure' =
                        [final_structure EXCEPT
                            !.sections[idx].content = section_content.data]
                 /\ idx' = idx + 1
                 /\ pc' = "for_section"
            ELSE /\ pc' = "section_input"
                 /\ UNCHANGED <<complete_report, idx, final_structure>>
    /\ UNCHANGED <<source_docs, topic, deps, message_history,
                   result, feedback, section_content, report, file>>
    /\ pending' = Suspended(pc')

\* main.py:151-161 up to the input() call
SectionAsk ==
    /\ pc = "section_ask"
    /\ \E a \in {"accept", "revise"} :
         /\ answer' = a
         /\ trace' = Append(trace, AskEvent(idx, a))
         /\ IF a = "accept"
            THEN /\ complete_report' = AppendSection
                 /\ idx' = idx + 1
                 /\ pc' = "for_section"
            ELSE /\ pc' = "section_input"
                 /\ UNCHANGED <<complete_report, idx>>
    /\ UNCHANGED <<source_docs, topic, deps, message_history, final_structure,
                   result, feedback, section_content, report, file>>
    /\ pending' = Suspended(pc')

\* main.py:161
SectionInput ==
    /\ pc = "section_input"
    /\ \E fb \in Feedbacks :
         /\ feedback' = fb
         /\ trace' = Append(trace, InputEvent(idx, fb))
    /\ pc' = "section_revision"
    /\ UNCHANGED <<source_docs, topic, deps, message_history, final_structure,
                   result, answer, complete_report, idx, section_content,
                   report, file>>
    /\ pending' = Suspended(pc')

\* main.py:162-168
SectionRevision ==
    /\ pc = "section_revision"
    /\ NumCalls < MaxCalls
    /\ \E data \in Contents :
         LET res == WriterResult(SectionRevisionHistory, Len(trace) + 1,
                                 SectionRevisionArgPrompt, data)
         IN /\ section_content' = res
            /\ trace' = Append(trace,
                   CallEvent("writer", "section_revision", idx,
                             SectionRevisionArgPrompt, CallDeps,
                             SectionRevisionHistory, res))
    /\ pc' = "section_ask"
    /\ UNCHANGED <<source_docs, topic, deps, message_history, final_structure,
                   result, answer, feedback, complete_report, idx, report, file>>
    /\ pending' = Suspended(pc')

(***************************************************************************)
(* Return, failure and main (main.py:170-173, 208-217)                     *)
(***************************************************************************)
\* variant: a failed writer run ends the section loop and the report so far
\* is returned
AgentRunFails_ReturnsPartial ==
    /\ pc \in CallSites
    /\ pc' = IF pc \in {"section_draft", "section_revision"}
             THEN "return" ELSE "aborted"
    /\ trace' = Append(trace, [ev |-> "raise", site |-> pc])
    /\ UNCHANGED <<source_docs, topic, deps, message_history, final_structure,
                   result, answer, feedback, complete_report, idx,
                   section_content, report, file>>
    /\ pending' = Suspended(pc')

\* an agent run raises after its retries: nothing in generate_report or main
\* catches it, so the run ends at the call (main.py:98, 118, 141, 162, 209)
AgentRunFails ==
    /\ pc \in CallSites
    /\ pc' = "aborted"
    /\ trace' = Append(trace, [ev |-> "raise", site |-> pc])
    /\ UNCHANGED <<source_docs, topic, deps, message_history, final_structure,
                   result, answer, feedback, complete_report, idx,
                   section_content, report, file>>
    /\ pending' = Suspended(pc')

\* main.py:170-173 and the assignment of main.py:209
Return ==
    /\ pc = "return"
    /\ report' = ReportContent(final_structure, complete_report)
    /\ pc' = "save"
    /\ UNCHANGED <<source_docs, topic, deps, message_history, final_structure,
                   result, answer, feedback, complete_report, idx,
                   section_content, file, trace>>
    /\ pending' = Suspended(pc')

\* main.py:212-217
Save ==
    /\ pc = "save"
    /\ file' = [content |-> report.content]
    /\ pc' = "done"
    /\ UNCHANGED <<source_docs, topic, deps, message_history, final_structure,
                   result, answer, feedback, complete_report, idx,
                   section_content, report, trace>>
    /\ pending' = Suspended(pc')

Next ==
    \/ StructureRequest
    \/ StructureAsk
    \/ StructureInput
    \/ StructureRevision
    \/ StructureAsk2
    \/ ForSection
    \/ SectionDraft
    \/ SectionAsk
    \/ SectionInput
    \/ SectionRevision
    \/ AgentRunFails
    \/ Return
    \/ Save

Spec == Init /\ [][Next]_vars

(***************************************************************************)
(* The run with agents that always answer and an approver who says         *)
(* "modify" or "revise" only finitely often.  The run is one sequential    *)
(* coroutine: whenever the awaited answer is there it goes on, hence the   *)
(* weak fairness of its steps.                                             *)
(***************************************************************************)
\* the largest number of sections of a structure the agent may answer with
MaxSections == Max({Len(st.sections) : st \in StructureCandidates})

\* the "modify" and "revise" decisions the approver may give so that the
\* calls of the run stay within MaxCalls
RejectBudget == MaxCalls - 1 - MaxSections

\* number of "modify" and "revise" decisions in trace tr
Rejects(tr) ==
    Cardinality({k \in 1..Len(tr) :
                    tr[k].ev = "ask" /\ tr[k].answer \in {"modify", "revise"}})

PatientStructureAsk == StructureAsk /\ Rejects(trace') <= RejectBudget

PatientStructureAsk2 == StructureAsk2 /\ Rejects(trace') <= RejectBudget

PatientSectionAsk == SectionAsk /\ Rejects(trace') <= RejectBudget

LiveNext ==
    \/ StructureRequest
    \/ PatientStructureAsk
    \/ StructureInput
    \/ StructureRevision
    \/ PatientStructureAsk2
    \/ ForSection
    \/ SectionDraft
    \/ PatientSectionAsk
    \/ SectionInput
    \/ SectionRevision
    \/ Return
    \/ Save

LiveSpec == Init /\ [][LiveNext]_vars /\ WF_vars(LiveNext)

(***************************************************************************)
(* Properties                                                              *)
(***************************************************************************)
\* sections whose loop has ended
AcceptedSections ==
    IF final_structure = None THEN {}
    ELSE {i \in 1..Len(final_structure.sections) : i < idx}

\* C1: a section's loop ends only at an "accept" decision, and the content
\* appended for the section is the candidate the writer returned last: with
\* n "revise" decisions the section had n+1 calls and the content is the
\* data of the last of them.
C1_AcceptedContentIsLastCandidate ==
    final_structure # None =>
        \A i \in 1..Len(final_structure.sections) :
            /\ (i \in AcceptedSections) <=> (ThreadAsks(i, "accept") # {})
            /\ i \in AcceptedSections =>
                 /\ Cardinality(ThreadAsks(i, "accept")) = 1
                 /\ \A k \in ThreadAsks(i, "revise") : k < Max(ThreadAsks(i, "accept"))
                 /\ \A k \in ThreadCalls(i) : k < Max(ThreadAsks(i, "accept"))
                 /\ Cardinality(ThreadCalls(i)) =
                        Cardinality(ThreadAsks(i, "revise")) + 1
                 /\ Len(complete_report) >= 4 * i
                 /\ SubSeq(complete_report, 4 * i - 3, 4 * i) =
                        SectionBlock(final_structure.sections[i].title,
                                     trace[Max(ThreadCalls(i))].data)

\* a section accepted after two revisions whose third candidate differs from
\* the first and the second
C1_Witness ==
    \E i \in AcceptedSections :
        /\ Cardinality(ThreadCalls(i)) = 3
        /\ trace[Min(ThreadCalls(i))].data = "c1"
        /\ \E k \in ThreadCalls(i) :
              k # Min(ThreadCalls(i)) /\ k # Max(ThreadCalls(i)) /\ trace[k].data = "c1"
        /\ trace[Max(ThreadCalls(i))].data = "c2"
        /\ complete_report[4 * i] = "c2"

RECURSIVE Blocks(_, _)
\* the blocks of sections 1..n of structure st, with the content accepted
\* for each section (the last candidate of the section's thread)
Blocks(st, n) ==
    IF n = 0 THEN <<>>
    ELSE Blocks(st, n - 1)
         \o <<"\n\n# ", st.sections[n].title, "\n\n",
              trace[Max(ThreadCalls(n))].data>>

\* C2: the content of the returned ReportContent is the concatenation, in
\* the order of the sections of the accepted structure, of one block per
\* section, none missing and none duplicated.
C2_AssemblyKeepsOrder ==
    report # None =>
        /\ ThreadAsks(0, "accept") # {}
        /\ LET st == trace[Max(ThreadAsks(0, "accept")) - 1].data
           IN /\ \A i \in 1..Len(st.sections) : ThreadCalls(i) # {}
              /\ report.content = Blocks(st, Len(st.sections))
              /\ Len(report.content) = 4 * Len(st.sections)

\* a report of two sections with different titles was returned, one of the
\* sections after a revision
C2_Witness ==
    /\ report # None
    /\ Len(report.structure.sections) = 2
    /\ report.structure.sections[1].title # report.structure.sections[2].title
    /\ Cardinality(ThreadCalls(1)) = 2
    /\ Cardinality(ThreadCalls(2)) = 1

\* C3: the history passed into a revision call is the history returned by
\* the call of the same thread made immediately before it.
C3_RevisionHistoryIsPrevious ==
    \A k \in RevisionCalls :
        /\ EarlierCalls(k) # {}
        /\ trace[k].message_history = trace[Max(EarlierCalls(k))].all_messages

\* a structure revision was made and a section had two revisions
C3_Witness ==
    /\ \E k \in RevisionCalls : trace[k].thread = 0
    /\ \E k \in RevisionCalls :
          trace[k].thread > 0 /\ Len(trace[k].message_history) = 2

\* the threads whose calls produced the exchanges of history h
HistoryThreads(h) == {trace[h[j].call].thread : j \in 1..Len(h)}

\* C4: a section's first drafting call has no history, and every writer
\* call receives only exchanges produced by calls of its own section: none
\* of the structure thread and none of another section.
C4_NoHistoryAcrossThreads ==
    \A k \in 1..Len(trace) :
        (trace[k].ev = "call" /\ trace[k].agent = "writer") =>
            /\ trace[k].kind = "draft" => trace[k].message_history = NoHistory
            /\ \A j \in 1..Len(trace[k].message_history) :
                  /\ trace[k].message_history[j].call \in ThreadCalls(trace[k].thread)
                  /\ trace[k].message_history[j].call < k
            /\ HistoryThreads(trace[k].message_history) \subseteq {trace[k].thread}

\* after a structure revision, the second section was drafted and revised
C4_Witness ==
    /\ \E k \in RevisionCalls : trace[k].thread = 0
    /\ ThreadCalls(1) # {}
    /\ \E k \in RevisionCalls :
          trace[k].thread = 2 /\ HistoryThreads(trace[k].message_history) = {2}

\* number of structure revision calls
StructureRevisionCalls == {k \in RevisionCalls : trace[k].thread = 0}

\* C5: the final structure is the candidate presented immediately before the
\* "accept" decision: the first candidate with no revision call after an
\* immediate accept, the second candidate with exactly one revision call,
\* whose prompt embeds the feedback, after "modify" then "accept".
C5_FinalStructureIsAcceptedCandidate ==
    /\ (final_structure = None) <=> (ThreadAsks(0, "accept") = {})
    /\ final_structure # None =>
          LET a == Max(ThreadAsks(0, "accept"))
          IN /\ Cardinality(ThreadAsks(0, "accept")) = 1
             /\ trace[a - 1].ev = "call"
             /\ trace[a - 1].thread = 0
             /\ a - 1 = Max(ThreadCalls(0))
             /\ final_structure = trace[a - 1].data
             /\ a = 2 => /\ final_structure = trace[1].data
                         /\ StructureRevisionCalls = {}
             /\ a = 5 => /\ final_structure = trace[4].data
                         /\ StructureRevisionCalls = {4}
                         /\ trace[3].ev = "input"
                         /\ Embeds(trace[4].prompt, <<trace[3].feedback>>)

\* "modify" then "accept", the second candidate differing from the first
C5_Witness ==
    /\ final_structure # None
    /\ Max(ThreadAsks(0, "accept")) = 5
    /\ trace[1].data # trace[4].data
    /\ final_structure = trace[4].data

\* C6: every "modify" decision of the structure loop is followed by a
\* feedback input, then by one revision call whose prompt embeds that
\* feedback and the candidate just presented and whose history is the one
\* returned with that candidate, then by a new decision.
C6_ModifyIsFollowedByRevision ==
    \A k \in ThreadAsks(0, "modify") :
        /\ k + 1 <= Len(trace) =>
              /\ trace[k + 1].ev = "input"
              /\ trace[k + 1].thread = 0
        /\ k + 2 <= Len(trace) =>
              \/ trace[k + 2].ev = "raise"
              \/ /\ trace[k + 2].ev = "call"
                 /\ trace[k + 2].kind = "revision"
                 /\ Embeds(trace[k + 2].prompt, <<trace[k + 1].feedback>>)
                 /\ Embeds(trace[k + 2].prompt, StrStructure(trace[k - 1].data))
                 /\ trace[k + 2].message_history = trace[k - 1].all_messages
        /\ k + 3 <= Len(trace) =>
              /\ trace[k + 3].ev = "ask"
              /\ trace[k + 3].thread = 0

\* C7, as stated: when the decision after exactly one modify round (the
\* fifth interaction) is again "modify", no further call is made for the
\* structure.
C7_SecondModifyEndsLoop ==
    5 \in ThreadAsks(0, "modify") => ThreadCalls(0) = {1, 4}

\* C7, amended: when the decision after exactly one modify round is again
\* "modify", the loop goes on: no feedback is asked, no structure is final,
\* and the next interaction is a new structure request for the topic with
\* no history.
C7_SecondModifyRestartsRequest ==
    5 \in ThreadAsks(0, "modify") =>
        /\ Len(trace) = 5 => (pc = "structure_request" /\ final_structure = None)
        /\ Len(trace) > 5 =>
              \/ trace[6].ev = "raise"
              \/ /\ trace[6].ev = "call"
                 /\ trace[6].agent = "delegation"
                 /\ trace[6].kind = "request"
                 /\ trace[6].prompt = <<"Create a report structure for topic: ", topic>>
                 /\ trace[6].message_history = <<>>

\* "modify", feedback, revision, "modify", and a third structure call made
C7_Witness ==
    /\ 5 \in ThreadAsks(0, "modify")
    /\ 6 \in ThreadCalls(0)
    /\ Len(trace[4].all_messages) = 2

\* C8: once an agent run has failed the run is over: no ReportContent is
\* returned and no file is written, whatever had been accepted before.
C8_FailureAbortsRun ==
    /\ (pc = "aborted") <=> (\E k \in 1..Len(trace) : trace[k].ev = "raise")
    /\ pc = "aborted" => (report = None /\ file = None)
    /\ file # None => (report # None /\ pc = "done")

\* a section revision failed after an earlier section had been accepted
C8_Witness ==
    /\ pc = "aborted"
    /\ complete_report # <<>>
    /\ trace[Len(trace)].site = "section_revision"

C10_HistoryAccumulates ==
    \A k \in 1..Len(trace) :
        (trace[k].ev = "call" /\ EarlierCalls(k) # {}) =>
            trace[k].message_history = trace[Max(EarlierCalls(k))].all_messages

\* the statements of the section loop body
SectionSites == {"section_draft", "section_ask", "section_input", "section_revision"}

\* C11: sections are handled one after the other in the order of the
\* structure: every call for section i is made after each earlier section
\* was accepted and appended, and its prompt embeds the accepted content of
\* no earlier section.
C11_SectionsSequential ==
    /\ pc \in SectionSites =>
          /\ idx \in 1..Len(final_structure.sections)
          /\ Len(complete_report) = 4 * (idx - 1)
          /\ \A j \in 1..(idx - 1) : ThreadAsks(j, "accept") # {}
          /\ \A j \in idx..Len(final_structure.sections) : ThreadAsks(j, "accept") = {}
    /\ \A k \in 1..Len(trace) :
          (trace[k].ev = "call" /\ trace[k].agent = "writer") =>
              \A j \in 1..(trace[k].thread - 1) :
                  /\ ThreadAsks(j, "accept") # {}
                  /\ Max(ThreadAsks(j, "accept")) < k
                  /\ \A c \in ThreadCalls(j) :
                        /\ c < k
                        /\ ~Embeds(trace[k].prompt, <<trace[c].data>>)

\* the second section was drafted and revised after the first one had been
\* revised and accepted
C11_Witness ==
    /\ Cardinality(ThreadCalls(1)) = 2
    /\ Cardinality(ThreadCalls(2)) = 2
    /\ ThreadAsks(1, "accept") # {}

\* C12: when the accepted structure has no section the run raises nothing,
\* makes no writer call, asks no section decision or feedback, and returns a
\* ReportContent whose content is the empty string (which main writes).
C12_EmptyStructureGivesEmptyReport ==
    (final_structure # None /\ Len(final_structure.sections) = 0) =>
        /\ pc \in {"for_section", "return", "save", "done"}
        /\ \A k \in 1..Len(trace) :
              /\ trace[k].ev # "raise"
              /\ trace[k].thread = 0
              /\ trace[k].ev = "call" => trace[k].agent = "delegation"
        /\ complete_report = <<>>
        /\ pc \in {"save", "done"} =>
              /\ report # None
              /\ report.content = <<>>
              /\ report.structure.sections = <<>>
        /\ pc = "done" => (file # None /\ file.content = <<>>)

\* a structure without sections was accepted after a revision and the run
\* ended with an empty report written
C12_Witness ==
    /\ pc = "done"
    /\ Len(final_structure.sections) = 0
    /\ StructureRevisionCalls # {}
    /\ report.content = <<>>
    /\ file.content = <<>>

C14_AcceptedStructureFrozen ==
    /\ [](final_structure # None =>
            /\ final_structure \in StructureCandidates
            /\ final_structure = trace[Max(ThreadAsks(0, "accept")) - 1].data
            /\ \A k \in 1..Len(trace) :
                  (trace[k].ev = "call" /\ trace[k].agent = "writer") =>
                      /\ trace[k].thread \in 1..Len(final_structure.sections)
                      /\ trace[k].prompt[2] =
                            final_structure.sections[trace[k].thread].title
            /\ report # None =>
                  /\ report.structure = final_structure
                  /\ \A i \in 1..Len(final_structure.sections) :
                        Cardinality({k \in ThreadCalls(i) : trace[k].kind = "draft"}) = 1)
    /\ [][final_structure # None => final_structure' = final_structure]_vars

\* a report on a structure of two sections with subsections was returned
\* after a section revision
C14_Witness ==
    /\ report # None
    /\ Len(report.structure.sections) = 2
    /\ report.structure.sections[2].subsections # <<>>
    /\ \E k \in RevisionCalls : trace[k].thread > 0

\* the statements of the structure loop body
StructureSites == {"structure_request", "structure_ask", "structure_input",
                   "structure_revision", "structure_ask2"}

\* "modify" decisions given on a revised candidate
ModifiesOnRevised ==
    {k \in ThreadAsks(0, "modify") : trace[k - 1].kind = "revision"}

\* C15: a "modify" given on a revised candidate asks no feedback and makes
\* no revision call: the next call is the initial request for the topic
\* with no history, the revised candidate and its history being dropped; so
\* there can be fewer revision calls than "modify" decisions, and the loop
\* still ends only on "accept".
C15_ModifyOnRevisedRestarts ==
    /\ \A k \in ModifiesOnRevised :
          /\ k = Len(trace) =>
                /\ pc = "structure_request"
                /\ final_structure = None
                /\ message_history = NoHistory
          /\ k < Len(trace) =>
                /\ trace[k + 1].ev \in {"call", "raise"}
                /\ trace[k + 1].ev = "call" =>
                      /\ trace[k + 1].kind = "request"
                      /\ trace[k + 1].prompt = StructurePrompt(topic)
                      /\ trace[k + 1].message_history = NoHistory
                      /\ Len(trace[k + 1].all_messages) = 1
    /\ Cardinality(StructureRevisionCalls) + Cardinality(ModifiesOnRevised)
          <= Cardinality(ThreadAsks(0, "modify"))
    /\ pc \notin StructureSites =>
          (ThreadAsks(0, "accept") # {} \/ pc = "aborted")
    /\ ThreadAsks(0, "accept") # {} => pc \notin StructureSites

\* four "modify" decisions with two revision calls only, and a third
\* initial request
C15_Witness ==
    /\ Cardinality(ThreadAsks(0, "modify")) = 4
    /\ Cardinality(StructureRevisionCalls) = 2
    /\ Cardinality(ModifiesOnRevised) = 2
    /\ Len(trace) = 11
    /\ trace[11].kind = "request"

\* positions of the calls of kind kd of thread t
KindCalls(t, kd) == {k \in ThreadCalls(t) : trace[k].kind = kd}

\* positions of the feedback inputs of thread t
ThreadInputs(t) ==
    {k \in 1..Len(trace) : trace[k].ev = "input" /\ trace[k].thread = t}

\* titles of the subsections of structure st
SubSectionTitles(st) ==
    UNION {{st.sections[i].subsections[j].title :
                j \in 1..Len(st.sections[i].subsections)} :
           i \in 1..Len(st.sections)}

\* C16: the section loop has no round cap and drafts top-level sections
\* only: every "revise" is followed by one feedback input, one revision
\* call and a new decision; an accepted section had exactly one draft and
\* as many revision calls and feedback inputs as "revise" decisions; and a
\* returned report took as many drafts as the structure has sections, none
\* of them for a subsection.
C16_SectionRoundsUncapped ==
    final_structure # None =>
        /\ \A i \in 1..Len(final_structure.sections) :
              /\ Cardinality(KindCalls(i, "draft")) <= 1
              /\ Cardinality(KindCalls(i, "draft")) + Cardinality(KindCalls(i, "section_revision"))
                    = Cardinality(ThreadCalls(i))
              /\ i \in AcceptedSections =>
                    /\ Cardinality(KindCalls(i, "draft")) = 1
                    /\ Cardinality(KindCalls(i, "section_revision"))
                          = Cardinality(ThreadAsks(i, "revise"))
                    /\ Cardinality(ThreadInputs(i))
                          = Cardinality(ThreadAsks(i, "revise"))
              /\ \A k \in ThreadAsks(i, "revise") :
                    /\ k + 1 <= Len(trace) =>
                          (trace[k + 1].ev = "input" /\ trace[k + 1].thread = i)
                    /\ k + 2 <= Len(trace) =>
                          \/ trace[k + 2].ev = "raise"
                          \/ /\ trace[k + 2].ev = "call"
                             /\ trace[k + 2].kind = "section_revision"
                             /\ trace[k + 2].thread = i
                    /\ k + 3 <= Len(trace) =>
                          (trace[k + 3].ev = "ask" /\ trace[k + 3].thread = i)
        /\ \A k \in 1..Len(trace) :
              (trace[k].ev = "call" /\ trace[k].agent = "writer") =>
                  /\ trace[k].thread >= 1
                  /\ trace[k].prompt[2] \notin
                        SubSectionTitles(final_structure)
        /\ report # None =>
              Cardinality({k \in 1..Len(trace) :
                              trace[k].ev = "call" /\ trace[k].kind = "draft"})
                  = Len(final_structure.sections)

\* a report of one section that has a subsection was returned after three
\* revisions of the section
C16_Witness ==
    /\ report # None
    /\ Len(final_structure.sections) = 1
    /\ final_structure.sections[1].subsections # <<>>
    /\ Cardinality(ThreadAsks(1, "revise")) = 3
    /\ Cardinality(KindCalls(1, "section_revision")) = 3

\* a is a prefix of b
IsPrefix(a, b) ==
    /\ Len(a) <= Len(b)
    /\ \A j \in 1..Len(a) : a[j] = b[j]

\* C17: the running document is append-only: it always is the
\* concatenation of the blocks of the sections accepted so far, a prefix of
\* the sections of the structure; a step changes it only by appending one
\* block at an "accept" decision, so every earlier value is a prefix of
\* every later one.
C17_DocumentAppendOnly ==
    /\ [](/\ final_structure = None => complete_report = <<>>
          /\ final_structure # None =>
                /\ AcceptedSections = 1..(idx - 1)
                /\ complete_report = Blocks(final_structure, idx - 1))
    /\ [][/\ IsPrefix(complete_report, complete_report')
          /\ complete_report' # complete_report =>
                /\ pc = "section_ask"
                /\ answer' = "accept"
                /\ Len(complete_report') = Len(complete_report) + 4]_vars

\* two sections were appended, the second one after a revision
C17_Witness ==
    /\ Len(complete_report) = 8
    /\ idx = 3
    /\ Cardinality(ThreadCalls(2)) = 2
    /\ trace[Min(ThreadCalls(2))].data # trace[Max(ThreadCalls(2))].data

\* C18: when every agent run returns and the approver rejects only
\* finitely often, the run ends with the ReportContent returned and its
\* content written to the file; and a loop is left by an "accept" only:
\* as long as no "accept" is given for the structure the run stays in the
\* structure loop, and as long as none is given for a section the run does
\* not get past that section.
C18_TerminatesOnAcceptance ==
    /\ <>(/\ pc = "done"
          /\ report # None
          /\ file # None
          /\ file.content = report.content)
    /\ [](/\ ThreadAsks(0, "accept") = {} =>
                (pc \in StructureSites /\ final_structure = None /\ report = None)
          /\ final_structure # None =>
                \A i \in 1..Len(final_structure.sections) :
                    ThreadAsks(i, "accept") = {} =>
                        /\ idx <= i
                        /\ pc \notin {"return", "save", "done"}
                        /\ report = None
                        /\ file = None)

\* the run ended after a "modify" and a "revise"
C18_Witness ==
    /\ pc = "done"
    /\ file # None
    /\ ThreadAsks(0, "modify") # {}
    /\ \E i \in 1..Len(final_structure.sections) : ThreadAsks(i, "revise") # {}

====
